---- MODULE Spec2Model ----
(***************************************************************************)
(* Model of Mitmachen.find_articles (src/www/python/src/api.py): the       *)
(* depth-bounded expansion of a category subtree, the aggregation of the   *)
(* rows of the tag query and of the broken-citation (iabot) query into a   *)
(* page -> problems dictionary, and the final de-duplication and sampling. *)
(*                                                                         *)
(* Strings are sequences of one-character strings, so that the replace()   *)
(* calls, the ":" test and the "|".join of the code are computed, not      *)
(* assumed.  Page titles are modelled by naturals: only their identity is  *)
(* read by the code.  The database (category graph, rows of the two        *)
(* queries) is read-only during a request and is fixed in the initial      *)
(* state; connection and query faults are chosen when a query is issued.   *)
(***************************************************************************)
EXTENDS Naturals, Sequences, FiniteSets

VARIABLES category, maxDepth, graph, tagRows, iabotRows,
          pc, tree, categories, depth, queried, fault,
          categories_concat, submitted, articles, idx, result, more

vars == <<category, maxDepth, graph, tagRows, iabotRows,
          pc, tree, categories, depth, queried, fault,
          categories_concat, submitted, articles, idx, result, more>>

inputs == <<category, maxDepth, graph, tagRows, iabotRows>>

-----------------------------------------------------------------------------
(* Program constants *)

MAX_DEPTH == 3

NUM == 10

(* Bounds of the model *)

\* largest number of edges of the category graph
MaxEdges == 3

\* largest number of rows the two problem queries return together
MaxRows == 3

\* the sampling scenarios hold up to NUM + MaxExtra distinct pages
MaxExtra == 2

-----------------------------------------------------------------------------
(* Strings *)

Range(s) == {s[i] : i \in DOMAIN s}

\* str.replace(old, new) for one-character old and new
Replace(s, old, new) == [i \in DOMAIN s |-> IF s[i] = old THEN new ELSE s[i]]

\* category.replace(" ", "_")
NormalizeCategory(name) == Replace(name, " ", "_")

\* ":" in cat
HasColon(cat) == \E i \in DOMAIN cat : cat[i] = ":"

\* some list holding each element of the set S once: list(S) for a set S
ListsOfSet(S) == {l \in [1..Cardinality(S) -> S] : Range(l) = S}

RECURSIVE JoinFrom(_, _)
JoinFrom(list, i) ==
    IF i > Len(list) THEN <<>>
    ELSE IF i = Len(list) THEN list[i]
    ELSE list[i] \o <<"|">> \o JoinFrom(list, i + 1)

\* '|'.join(categories)
Join(list) == JoinFrom(list, 1)

-----------------------------------------------------------------------------
(* The data the requests run on *)

CatA == <<"A">>
CatAB == <<"A", "_", "B">>
CatC == <<"C">>
CatWX == <<"W", ":", "X">>

\* page titles of the category pages of the database (underscores, no spaces)
Titles == {CatA, CatAB, CatC, CatWX}

\* category names a request may carry (among them a name with a space, a
\* name with an underscore and a namespaced name)
RootNames == {CatA, <<"A", " ", "B">>, CatAB, CatWX}

Graphs == {g \in SUBSET (Titles \X Titles) : Cardinality(g) <= MaxEdges}

LabelLK == <<"L", "_", "K">>
LabelLKShown == <<"L", " ", "K">>
LabelV == <<"V">>

Bytes(v) == [kind |-> "bytes", val |-> v]
Str(v) == [kind |-> "str", val |-> v]
BadBytes(v) == [kind |-> "badbytes", val |-> v]
MissingPage == [kind |-> "missing", val |-> 0]
MissingLabel == [kind |-> "missing", val |-> <<>>]

Row(p, l) == [page_title |-> p, tl_title |-> l]

WellFormedRows ==
    {Row(Bytes(p), l) : p \in {1, 2}, l \in {Bytes(LabelLK), Str(LabelLKShown)}}
        \cup {Row(Bytes(1), Bytes(LabelV))}

MalformedRows ==
    {Row(MissingPage, Bytes(LabelLK)), Row(Str(1), Bytes(LabelV)),
     Row(Bytes(1), MissingLabel), Row(Bytes(2), BadBytes(LabelV))}

RowSet == WellFormedRows \cup MalformedRows

RECURSIVE RowSeqs(_)
RowSeqs(n) ==
    IF n = 0 THEN {<<>>}
    ELSE LET shorter == RowSeqs(n - 1)
         IN shorter \cup {Append(s, r) : s \in {t \in shorter : Len(t) = n - 1},
                                        r \in RowSet}

\* rows for the pages lo..hi, one label each
PageRows(lo, hi) == [i \in 1..(hi + 1 - lo) |-> Row(Bytes(lo + i - 1), Bytes(LabelLK))]

-----------------------------------------------------------------------------
(* Initial states: a request (category) and the database it runs on *)

NoFault == <<>>

Start ==
    /\ pc = "start"
    /\ tree = {}
    /\ categories = {}
    /\ depth = 0
    /\ queried = <<>>
    /\ fault = NoFault
    /\ categories_concat = <<>>
    /\ submitted = [tag |-> {}, iabot |-> {}]
    /\ articles = <<>>
    /\ idx = 0
    /\ result = <<>>
    /\ more = FALSE

\* any request over any small category graph; one row per problem query.
\* The depth limit is read as self.MAX_DEPTH, so an instance or a subclass
\* may set it: the class value MAX_DEPTH and every lower one are covered.
InitTraversal ==
    /\ category \in RootNames
    /\ maxDepth \in 0..MAX_DEPTH
    /\ graph \in Graphs
    /\ tagRows = <<Row(Bytes(1), Bytes(LabelLK))>>
    /\ iabotRows = <<Row(Bytes(1), Str(LabelLKShown))>>
    /\ Start

\* a category without subcategories; any rows, well-formed or not
InitAggregation ==
    /\ category = CatA
    /\ maxDepth = MAX_DEPTH
    /\ graph = {}
    /\ \E rows \in RowSeqs(MaxRows) : \E k \in 0..Len(rows) :
          /\ tagRows = SubSeq(rows, 1, k)
          /\ iabotRows = SubSeq(rows, k + 1, Len(rows))
    /\ Start

\* a category without subcategories; up to NUM + MaxExtra distinct pages
InitSampling ==
    /\ category = CatA
    /\ maxDepth = MAX_DEPTH
    /\ graph = {}
    /\ \E n \in 0..(NUM + MaxExtra) : \E k \in 0..n :
          /\ tagRows = PageRows(1, k)
          /\ iabotRows = PageRows(k + 1, n)
    /\ Start

Init == InitTraversal \/ InitAggregation \/ InitSampling

-----------------------------------------------------------------------------
(* find_articles and _find_all_subcategories *)

\* what a query on an open connection can end in: success, cursor.execute
\* raising, cursor.fetchall (or decoding its rows) raising.  Whether
\* toolforge.connect succeeds is chosen apart, where the connection is made.
QueryOutcomes == {"ok", "execute", "fetch"}

\* tree = set([category.replace(" ", "_")])
SeedTree(name) == {NormalizeCategory(name)}

\* the list [category] handed to _find_all_subcategories
SeedCategories(name) == {name}

FindArticles ==
    /\ pc = "start"
    /\ tree' = SeedTree(category)
    /\ categories' = SeedCategories(category)
    /\ depth' = 0
    /\ pc' = "expand"
    /\ UNCHANGED <<inputs, queried, fault, categories_concat, submitted,
                   articles, idx, result, more>>

\* a depth test that lets one more level through
DepthOffByOne(d) == d > maxDepth

\* if depth >= self.MAX_DEPTH: return
DepthExhausted(d) == d >= maxDepth

\* a filter that keeps the namespaced categories
KeepAll(cats) == cats

\* [cat for cat in categories if ":" not in cat]
NoColon(cats) == {cat \in cats : ~HasColon(cat)}

\* if not categories: return  (evaluated on the filtered list)
NothingToQuery(cats) == NoColon(cats) = {}

\* the rows of subcategories.sql: the page titles of the direct subcategories
\* of the submitted categories.  The list is modelled by the set of its
\* elements; order and multiplicity of the rows are not read by the code.
SubcategoriesOf(cats) == {e[2] : e \in {d \in graph : d[1] \in cats}}

\* an expansion without the except clause
CaughtNothing(outcome) == FALSE

\* the try/except around the list comprehension over cursor.fetchall()
CaughtInExpansion(outcome) == outcome = "fetch"

\* tree.update(subcategories)
UpdateTree(t, subcategories) == t \cup subcategories

\* a recursive call on the subcategories not yet in the tree
FilterKnown(t, subcategories) == subcategories \ t

\* the categories argument of the recursive call
NextCategories(t, subcategories) == subcategories

FindAllSubcategories ==
    /\ pc = "expand"
    /\ IF DepthExhausted(depth) \/ NothingToQuery(categories)
       THEN /\ pc' = "aggregate"
            /\ UNCHANGED <<tree, categories, depth, queried, fault>>
       ELSE \E connected \in BOOLEAN : \E outcome \in QueryOutcomes :
              IF ~connected
              THEN \* self._get_connection() raises, outside every try
                   /\ pc' = "raised"
                   /\ fault' = Append(fault, <<"expand", "connect">>)
                   /\ UNCHANGED <<tree, categories, depth, queried>>
              ELSE /\ queried' = Append(queried, NoColon(categories))
                   /\ IF outcome = "ok"
                      THEN LET subcategories == SubcategoriesOf(NoColon(categories))
                           IN /\ tree' = UpdateTree(tree, subcategories)
                              /\ categories' = NextCategories(tree, subcategories)
                              /\ depth' = depth + 1
                              /\ pc' = "expand"
                              /\ UNCHANGED fault
                      ELSE IF CaughtInExpansion(outcome)
                      THEN \* subcategories = []
                           /\ tree' = UpdateTree(tree, {})
                           /\ categories' = NextCategories(tree, {})
                           /\ depth' = depth + 1
                           /\ pc' = "expand"
                           /\ fault' = Append(fault, <<"expand", outcome>>)
                      ELSE \* finally: conn.close(), the exception propagates
                           /\ pc' = "raised"
                           /\ fault' = Append(fault, <<"expand", outcome>>)
                           /\ UNCHANGED <<tree, categories, depth>>
    /\ UNCHANGED <<inputs, categories_concat, submitted, articles, idx,
                   result, more>>

-----------------------------------------------------------------------------
(* _find_tagged_articles and _extract_problems *)

\* a join that leaves the namespaced categories out
ConcatWithoutNamespaces(list) ==
    LET Plain(cat) == ~HasColon(cat) IN Join(SelectSeq(list, Plain))

\* categories_concat = '|'.join(categories)
CategoriesConcat(list) == Join(list)

\* an except clause that swallows a failing fetchall
CaughtFetch(outcome) == outcome = "fetch"

\* the try/finally of _find_tagged_articles has no except clause
CaughtInAggregation(outcome) == FALSE

\* conn = self._get_connection(); articles = {}; categories_concat = ...
\* list(tree) lists the set in an order the code does not control.
FindTaggedArticles ==
    /\ pc = "aggregate"
    /\ \E connected \in BOOLEAN :
          IF connected
          THEN /\ \E list \in ListsOfSet(tree) :
                     categories_concat' = CategoriesConcat(list)
               /\ articles' = <<>>
               /\ pc' = "tagquery"
               /\ UNCHANGED fault
          ELSE /\ pc' = "raised"
               /\ fault' = Append(fault, <<"aggregate", "connect">>)
               /\ UNCHANGED <<categories_concat, articles>>
    /\ UNCHANGED <<inputs, tree, categories, depth, queried, submitted, idx,
                   result, more>>

\* cursor.execute(query, {"categories": categories_concat, ...}) and
\* cursor.fetchall() of one of the two problem queries
ProblemQuery(source, rowsAt, after) ==
    /\ submitted' = [submitted EXCEPT ![source] = @ \cup {categories_concat}]
    /\ \E outcome \in QueryOutcomes :
          IF outcome = "ok"
          THEN /\ idx' = 1
               /\ pc' = rowsAt
               /\ UNCHANGED fault
          ELSE IF CaughtInAggregation(outcome)
          THEN /\ idx' = 0
               /\ pc' = after
               /\ fault' = Append(fault, <<source, outcome>>)
          ELSE /\ pc' = "raised"
               /\ fault' = Append(fault, <<source, outcome>>)
               /\ UNCHANGED idx
    /\ UNCHANGED <<inputs, tree, categories, depth, queried, categories_concat,
                   articles, result, more>>

TagQuery == pc = "tagquery" /\ ProblemQuery("tag", "tagrows", "iabotquery")

IabotQuery == pc = "iabotquery" /\ ProblemQuery("iabot", "iabotrows", "finalize")

\* item["page_title"].decode("utf-8"): a missing key, a value without decode()
\* and undecodable bytes all raise
PageExtracted(item) == item.page_title.kind = "bytes"

\* item["tl_title"].decode("utf-8").replace("_", " "), and item["tl_title"]
\* itself when it has no decode() (AttributeError); a missing key and
\* undecodable bytes raise
ProblemExtracted(item) == item.tl_title.kind \in {"bytes", "str"}

Problem(item) ==
    IF item.tl_title.kind = "bytes"
    THEN Replace(item.tl_title.val, "_", " ")
    ELSE item.tl_title.val

\* the outer try/except Exception: ... continue
RowExtracted(item) == PageExtracted(item) /\ ProblemExtracted(item)

\* articles is a dict in insertion order: a sequence of <<page, problems>>
HasPage(arts, page) == \E i \in DOMAIN arts : arts[i][1] = page

\* an insertion that replaces the list of a page already present
AddProblemOverwrite(arts, page, problem) ==
    IF \E i \in DOMAIN arts : arts[i][1] = page
    THEN [i \in DOMAIN arts |->
             IF arts[i][1] = page THEN <<page, <<problem>>>> ELSE arts[i]]
    ELSE Append(arts, <<page, <<problem>>>>)

\* try: articles[page].append(problem) / except KeyError: articles[page] = [problem]
AddProblem(arts, page, problem) ==
    IF HasPage(arts, page)
    THEN [i \in DOMAIN arts |->
             IF arts[i][1] = page THEN <<page, Append(arts[i][2], problem)>>
             ELSE arts[i]]
    ELSE Append(arts, <<page, <<problem>>>>)

\* one pass of the for loop of _extract_problems
ExtractOne(arts, item) ==
    IF RowExtracted(item)
    THEN AddProblem(arts, item.page_title.val, Problem(item))
    ELSE arts

\* one iteration of the for loop over the rows, or its end (return articles)
ExtractRows(rows, after) ==
    /\ IF idx <= Len(rows)
       THEN /\ articles' = ExtractOne(articles, rows[idx])
            /\ idx' = idx + 1
            /\ UNCHANGED pc
       ELSE /\ pc' = after
            /\ idx' = 0
            /\ UNCHANGED articles
    /\ UNCHANGED <<inputs, tree, categories, depth, queried, fault,
                   categories_concat, submitted, result, more>>

ExtractTagProblems == pc = "tagrows" /\ ExtractRows(tagRows, "iabotquery")

ExtractIabotProblems == pc = "iabotrows" /\ ExtractRows(iabotRows, "finalize")

\* a comparison that is off by one
MoreOffByOne(items) == Len(items) >= NUM

\* more = len(articles) > self.NUM
More(items) == Len(items) > NUM

RECURSIVE Restrict(_, _)
\* the elements of the sequence s at the indices in S, in the order of s
Restrict(s, S) ==
    IF s = <<>> THEN <<>>
    ELSE LET front == SubSeq(s, 1, Len(s) - 1)
         IN IF Len(s) \in S THEN Append(Restrict(front, S), s[Len(s)])
            ELSE Restrict(front, S)

\* random.sample(population, k): k elements at distinct positions.  The
\* order of the sample is not modelled: the elements keep their order.
Sample(population, k) ==
    {Restrict(population, S) : S \in {T \in SUBSET DOMAIN population : Cardinality(T) = k}}

\* list(problems): the labels as accumulated
KeepDuplicates(problems) == {problems}

\* list(set(problems)): the distinct labels, in some order
Distinct(problems) == ListsOfSet(Range(problems))

RECURSIVE PageResults(_)
\* [{"page": page, "problems": list(set(problems))} for page, problems in articles]
PageResults(items) ==
    IF items = <<>> THEN {<<>>}
    ELSE {<<[page |-> items[1][1], problems |-> p]>> \o rest :
             p \in Distinct(items[1][2]), rest \in PageResults(Tail(items))}

\* articles.items(), more, random.sample, the list comprehension, return
Finalize ==
    /\ pc = "finalize"
    /\ more' = More(articles)
    /\ \E chosen \in (IF More(articles) THEN Sample(articles, NUM) ELSE {articles}) :
          result' \in PageResults(chosen)
    /\ pc' = "done"
    /\ UNCHANGED <<inputs, tree, categories, depth, queried, fault,
                   categories_concat, submitted, articles, idx>>

-----------------------------------------------------------------------------

Next ==
    \/ FindArticles
    \/ FindAllSubcategories
    \/ FindTaggedArticles
    \/ TagQuery
    \/ ExtractTagProblems
    \/ IabotQuery
    \/ ExtractIabotProblems
    \/ Finalize

Spec == Init /\ [][Next]_vars

\* the request's single thread keeps running; every query returns or raises
LiveSpec == InitTraversal /\ [][Next]_vars /\ WF_vars(Next)

-----------------------------------------------------------------------------
(* Definitions the properties are stated with *)

Min(a, b) == IF a < b THEN a ELSE b

Returned == pc = "done"

Raised == pc = "raised"

ExpansionOver == pc \notin {"start", "expand"}

Faulted(stage, kind) == \E i \in DOMAIN fault : fault[i] = <<stage, kind>>

FaultedIn(stages) == \E i \in DOMAIN fault : fault[i][1] \in stages

AllRows == tagRows \o iabotRows

Pages(items) == {items[i][1] : i \in DOMAIN items}

\* the labels of the well-formed rows of one page, in the order of the rows
LabelsOf(page, rows) ==
    LET OfPage(r) == r \notin MalformedRows /\ r.page_title.val = page
        kept == SelectSeq(rows, OfPage)
    IN [i \in DOMAIN kept |-> Problem(kept[i])]

\* the dictionary holds exactly the well-formed rows among rows, page by page
Accumulated(arts, rows) ==
    /\ Pages(arts) = {r.page_title.val : r \in Range(rows) \ MalformedRows}
    /\ \A i, j \in DOMAIN arts : arts[i][1] = arts[j][1] => i = j
    /\ \A i \in DOMAIN arts : arts[i][2] = LabelsOf(arts[i][1], rows)

RECURSIVE Segments(_, _)
\* the "|"-separated segments of the string s; cur is the segment being read
Segments(s, cur) ==
    IF s = <<>> THEN {cur}
    ELSE IF Head(s) = "|" THEN {cur} \cup Segments(Tail(s), <<>>)
    ELSE Segments(Tail(s), Append(cur, Head(s)))

\* the paths of k edges from the root whose expanded nodes hold no colon
PathsFrom(root, k) ==
    {p \in [1..(k + 1) -> Titles \cup {root}] :
        /\ p[1] = root
        /\ \A i \in 1..k : <<p[i], p[i + 1]>> \in graph /\ ~HasColon(p[i])}

ReachableWithin(root, hops) ==
    UNION {{p[k + 1] : p \in PathsFrom(root, k)} : k \in 0..hops}

\* how many batch queries held the identifier
TimesQueried(id) == Cardinality({i \in DOMAIN queried : id \in queried[i]})

-----------------------------------------------------------------------------
(* C1 *)

C2_DistinctProblems ==
    Returned =>
        \A i \in DOMAIN result :
            /\ \A a, b \in DOMAIN result[i].problems :
                  result[i].problems[a] = result[i].problems[b] => a = b
            /\ Range(result[i].problems) = Range(LabelsOf(result[i].page, AllRows))

C2_Witness ==
    /\ Returned
    /\ tagRows = <<Row(Bytes(1), Bytes(LabelLK))>>
    /\ iabotRows = <<Row(Bytes(1), Str(LabelLKShown))>>
    /\ result = <<[page |-> 1, problems |-> <<LabelLKShown>>]>>

(* C3 *)

\* C3 as stated: each distinct identifier is submitted to the subcategory
\* query at most once during one find_articles call.
C3_QueriedAtMostOnce ==
    \A i, j \in DOMAIN queried : i # j => queried[i] \cap queried[j] = {}

\* C3 as amended: known categories are not filtered out.  The batch of each
\* level after the first is the whole result of the previous batch less the
\* identifiers holding a colon, and an identifier is submitted at most once
\* per level, so at most maxDepth times.
C3_FrontierIsUnfiltered ==
    /\ \A i \in DOMAIN queried :
          i > 1 => queried[i] = {t \in Titles : /\ ~HasColon(t)
                                                /\ \E c \in queried[i - 1] : <<c, t>> \in graph}
    /\ \A id \in Titles \cup {category} : TimesQueried(id) <= maxDepth

C3_Witness ==
    /\ ExpansionOver
    /\ Len(queried) = 3
    /\ CatA \in queried[1] \cap queried[3]
    /\ CatA \notin queried[2]

(* C4 *)

C5_AggregationFaultsPropagate ==
    /\ FaultedIn({"aggregate", "tag", "iabot"}) => (Raised /\ result = <<>>)
    /\ Returned => (submitted.tag # {} /\ submitted.iabot # {}
                    /\ Accumulated(articles, AllRows))

C5_Witness ==
    /\ Raised
    /\ Faulted("iabot", "fetch")
    /\ articles # <<>>
    /\ result = <<>>

(* C6 *)

HasSpace(name) == \E i \in DOMAIN name : name[i] = " "

\* C6: without query faults and for a root name without spaces, the category
\* set after the expansion is the root plus every category reachable from it
\* in at most maxDepth hops along paths whose expanded nodes hold no colon.
\* The set always holds the normalized root and is {root} when maxDepth = 0.
C6_CategorySetIsBoundedSubtree ==
    /\ pc # "start" => NormalizeCategory(category) \in tree
    /\ (ExpansionOver /\ maxDepth = 0) => tree = {NormalizeCategory(category)}
    /\ (pc = "aggregate" /\ fault = NoFault /\ ~HasSpace(category)) =>
           tree = ReachableWithin(category, maxDepth)

C6_Witness ==
    /\ pc = "aggregate"
    /\ fault = NoFault
    /\ category = CatA
    /\ maxDepth = MAX_DEPTH
    /\ CatWX \in tree
    /\ \E t \in Titles : <<CatWX, t>> \in graph /\ t \notin tree

(* C7 *)

\* C7: on every category graph the expansion terminates; it issues at most
\* maxDepth batch queries, one per level, and issues none once the
\* categories left after dropping those with a colon are none.
C7_ExpansionTerminates ==
    /\ [](Len(queried) <= maxDepth /\ (pc = "expand" => Len(queried) = depth))
    /\ [][(pc = "expand" /\ \A c \in categories : HasColon(c)) =>
             (pc' = "aggregate" /\ queried' = queried)]_vars
    /\ <>ExpansionOver

C7_Witness ==
    /\ pc = "aggregate"
    /\ fault = NoFault
    /\ maxDepth = MAX_DEPTH
    /\ Len(queried) = MAX_DEPTH
    /\ queried[1] = queried[MAX_DEPTH]

(* C8 *)

\* C8: the identifier submitted to the depth-0 subcategory query is the
\* normalized root name that was seeded into the category set.
C8_RootQueriedNormalized ==
    Len(queried) >= 1 => queried[1] = {NormalizeCategory(category)}

(* C9 *)

\* C9: no identifier holding a colon is submitted to the subcategory query at
\* any level; once in the category set it stays there, and it is among the
\* categories passed to the tag query and to the broken-citation query.
C9_ColonCategoriesAreLeaves ==
    /\ [](\A i \in DOMAIN queried : \A c \in queried[i] : ~HasColon(c))
    /\ [][tree \subseteq tree' \/ pc = "start"]_vars
    /\ [](\A source \in {"tag", "iabot"} : \A arg \in submitted[source] :
              \A c \in tree : HasColon(c) => c \in Segments(arg, <<>>))

C9_Witness ==
    /\ Returned
    /\ category = CatA
    /\ CatWX \in tree
    /\ \E c \in queried[1] : <<c, CatWX>> \in graph
    /\ \A source \in {"tag", "iabot"} : \E arg \in submitted[source] :
           CatWX \in Segments(arg, <<>>)

(* C10 *)

\* C10: a row whose extraction fails is skipped: the dictionary is left as it
\* is and the loop goes on with the next row.  Every well-formed row before
\* and after it is added, and the labels of a page are in the order of the
\* rows, those of the tag query before those of the broken-citation query.
C10_MalformedRowsAreSkipped ==
    /\ [][(pc \in {"tagrows", "iabotrows"} /\ idx' = idx + 1
            /\ (IF pc = "tagrows" THEN tagRows ELSE iabotRows)[idx] \in MalformedRows)
          => (articles' = articles /\ pc' = pc)]_vars
    /\ [](pc = "tagrows" => Accumulated(articles, SubSeq(tagRows, 1, idx - 1)))
    /\ [](pc = "iabotrows" =>
              Accumulated(articles, tagRows \o SubSeq(iabotRows, 1, idx - 1)))
    /\ [](pc \in {"finalize", "done"} => Accumulated(articles, AllRows))

C10_Witness ==
    /\ pc = "finalize"
    /\ Len(tagRows) = 2
    /\ tagRows[1] \in WellFormedRows
    /\ tagRows[2] \in MalformedRows
    /\ Len(iabotRows) = 1
    /\ iabotRows[1] \in WellFormedRows
    /\ articles = <<<<1, <<Problem(tagRows[1]), Problem(iabotRows[1])>>>>>>
    /\ Problem(tagRows[1]) # Problem(iabotRows[1])

====
